---- MODULE Spec2Model ----
(***************************************************************************)
(* Model of the chat relay of src/index.js: a socket.io server with three  *)
(* per-connection handlers (send_message, join_chat_room, disconnect) and  *)
(* an optional MySQL connection used to persist messages.                  *)
(*                                                                         *)
(* The JavaScript event loop runs one callback at a time, so each action   *)
(* below is one callback run to its next await (or to its end).            *)
(***************************************************************************)
EXTENDS Integers, Sequences, FiniteSets, TLC

\* ---- bounds ------------------------------------------------------------
NumConns == 2
MaxSends == 2

Conns == 1..NumConns
Rooms == {"r1", "r2"}
Undefined == "undefined"

\* The message objects a client may send; senderId may be missing.
Messages ==
    { [chatId |-> "r1", senderId |-> "u1", text |-> "hi"],
      [chatId |-> "r2", senderId |-> Undefined, text |-> "yo"] }

\* The argument list of a send_message event: << >> when the client emits
\* the event without a message object (message is undefined in the handler).
Payloads == {<< >>} \cup {<<m>> : m \in Messages}

VARIABLES
    dbPhase,        \* progress of connectToDatabase()
    conn,           \* per connection: "new", "live" or "closed"
    rooms,          \* the adapter's room table: room -> set of connections
    sends,          \* one record per send_message event, in order of receipt
    inbox,          \* per connection: the new_message events it was sent
    appends,        \* the INSERT statements issued to the database, in order
    rejections,     \* number of unhandled promise rejections so far
    running,        \* FALSE once the process has been terminated
    last            \* "rejoin" after a join_chat_room that found the socket
                    \* in the room already, "other" after any other step

vars == <<dbPhase, conn, rooms, sends, inbox, appends, rejections, running,
          last>>

\* `if (dbConnection)`: the variable is assigned once createConnection has
\* resolved and is never cleared afterwards.
DbAvailable == dbPhase \in {"probing", "probed", "probeFailed"}

\* A join_chat_room of a room the socket is already in changes nothing else:
\* `last` is what tells such a step from no step at all.
NoEvent == "other"

JoinEvent(c, r) == IF c \in rooms[r] THEN "rejoin" ELSE "other"

Init ==
    /\ dbPhase = "connecting"
    /\ conn = [c \in Conns |-> "new"]
    /\ rooms = [r \in Rooms |-> {}]
    /\ sends = << >>
    /\ inbox = [c \in Conns |-> << >>]
    /\ appends = << >>
    /\ rejections = 0
    /\ running = TRUE
    /\ last = NoEvent

\* ---- connectToDatabase ---------------------------------------------------
DbConnected ==
    /\ running /\ dbPhase = "connecting"
    /\ dbPhase' = "probing"
    /\ last' = NoEvent
    /\ UNCHANGED <<conn, rooms, sends, inbox, appends, rejections,
                   running>>

DbConnectFailed ==
    /\ running /\ dbPhase = "connecting"
    /\ dbPhase' = "absent"
    /\ last' = NoEvent
    /\ UNCHANGED <<conn, rooms, sends, inbox, appends, rejections,
                   running>>

\* A catch block that gives up the connection when the probe fails.
DbProbeReturnClears(ok) ==
    /\ running /\ dbPhase = "probing"
    /\ dbPhase' = IF ok THEN "probed" ELSE "absent"
    /\ last' = NoEvent
    /\ UNCHANGED <<conn, rooms, sends, inbox, appends, rejections,
                   running>>

\* `SELECT 1` resolves or rejects; a rejection is caught and only logged,
\* dbConnection stays assigned.
DbProbeReturn(ok) ==
    /\ running /\ dbPhase = "probing"
    /\ dbPhase' = IF ok THEN "probed" ELSE "probeFailed"
    /\ last' = NoEvent
    /\ UNCHANGED <<conn, rooms, sends, inbox, appends, rejections,
                   running>>

\* ---- socket.io primitives used by the handlers ---------------------------
\* A join that only adds to a room that already has a member.
SocketJoinKnownOnly(rms, c, r) ==
    IF rms[r] = {} THEN {rms} ELSE { [rms EXCEPT ![r] = @ \cup {c}] }

\* A join that first takes the socket out of every other room.
SocketJoinExclusive(rms, c, r) ==
    { [q \in Rooms |-> IF q = r THEN rms[q] \cup {c} ELSE rms[q] \ {c}] }

\* A join that takes the socket out of the room when it is already in it.
SocketJoinToggles(rms, c, r) ==
    IF c \in rms[r]
    THEN { [rms EXCEPT ![r] = @ \ {c}] }
    ELSE { [rms EXCEPT ![r] = @ \cup {c}] }

\* socket.join(room): the room tables that may result.  The socket is added
\* to the room's set.  On a socket that is already closed the library build
\* decides: releases that replace join by a no-op at close leave the table
\* alone, the others add the closed socket's id.
SocketJoin(rms, c, r) ==
    IF conn[c] = "live"
    THEN { [rms EXCEPT ![r] = @ \cup {c}] }
    ELSE { [rms EXCEPT ![r] = @ \cup {c}], rms }

\* io.emit: the event goes to every connected socket, whatever its rooms.
EmitToAll(inb, members, id, m) ==
    [c \in Conns |->
        IF conn[c] = "live"
        THEN Append(inb[c], [id |-> id, payload |-> m])
        ELSE inb[c]]

\* io.to(room).emit('new_message', message): one event to every socket of
\* the room that is still registered with the namespace.
Emit(inb, members, id, m) ==
    [c \in Conns |->
        IF c \in members /\ conn[c] = "live"
        THEN Append(inb[c], [id |-> id, payload |-> m])
        ELSE inb[c]]

\* ---- io.on('connection') -------------------------------------------------
Connect(c) ==
    /\ running /\ conn[c] = "new"
    /\ conn' = [conn EXCEPT ![c] = "live"]
    /\ last' = NoEvent
    /\ UNCHANGED <<dbPhase, rooms, sends, inbox, appends, rejections,
                   running>>

\* ---- socket.on('join_chat_room') -----------------------------------------
JoinChatRoom(c, r) ==
    /\ running /\ conn[c] = "live"
    /\ rooms' \in SocketJoin(rooms, c, r)
    /\ last' = JoinEvent(c, r)
    /\ UNCHANGED <<dbPhase, conn, sends, inbox, appends, rejections,
                   running>>

\* ---- socket.on('disconnect') ---------------------------------------------
\* The handler only logs; the library has already removed the socket from
\* every room when it runs.
Disconnect(c) ==
    /\ running /\ conn[c] = "live"
    /\ conn' = [conn EXCEPT ![c] = "closed"]
    /\ rooms' = [r \in Rooms |-> rooms[r] \ {c}]
    /\ last' = NoEvent
    /\ UNCHANGED <<dbPhase, sends, inbox, appends, rejections, running>>

\* ---- socket.on('send_message') -------------------------------------------
\* A relay that leaves out the join of line 92.
RelayWithoutJoin(id, c, m) ==
    /\ inbox' = Emit(inbox, rooms[m.chatId], id, m)
    /\ rooms' = rooms

\* Lines 81-92: emit to the room, then join the sender to it.
Relay(id, c, m) ==
    /\ inbox' = Emit(inbox, rooms[m.chatId], id, m)
    /\ rooms' \in SocketJoin(rooms, c, m.chatId)

\* A parameter list that binds the sender and the room in the wrong order.
InsertRowSwapped(id, m) ==
    [id |-> id, chatId |-> m.senderId, senderId |-> m.chatId,
     text |-> m.text, timestamp |-> "NOW()"]

\* The values of the INSERT of lines 71-74: three bind parameters taken from
\* the message, and the SQL expression NOW(), which the database evaluates
\* when the statement runs.  `id` names the send_message event whose handler
\* issued the statement.
InsertRow(id, m) ==
    [id |-> id, chatId |-> m.chatId, senderId |-> m.senderId,
     text |-> m.text, timestamp |-> "NOW()"]

SendRecord(c, args, pc, outcome) ==
    [conn |-> c, args |-> args, pc |-> pc, outcome |-> outcome]

\* A handler that does not start while the INSERT of an earlier message is
\* still pending.
SendMessageSerialized(c, args) ==
    /\ running /\ conn[c] = "live"
    /\ Len(sends) < MaxSends
    /\ \A j \in DOMAIN sends : sends[j].pc # "persisting"
    /\ LET id == Len(sends) + 1 IN
       IF args = << >>
       THEN /\ sends' = Append(sends, SendRecord(c, args, "threw", "none"))
            /\ rejections' = rejections + 1
            /\ running' \in BOOLEAN
            /\ UNCHANGED <<rooms, inbox, appends>>
       ELSE IF DbAvailable
       THEN /\ sends' = Append(sends, SendRecord(c, args, "persisting", "pending"))
            /\ appends' = Append(appends, InsertRow(id, args[1]))
            /\ UNCHANGED <<rooms, inbox, rejections, running>>
       ELSE /\ sends' = Append(sends, SendRecord(c, args, "done", "absent"))
            /\ Relay(id, c, args[1])
            /\ UNCHANGED <<appends, rejections, running>>
    /\ last' = NoEvent
    /\ UNCHANGED <<dbPhase, conn>>

\* A handler that does not await the INSERT: it emits and joins at once and
\* lets the statement finish later.
SendMessageEmitsFirst(c, args) ==
    /\ running /\ conn[c] = "live"
    /\ Len(sends) < MaxSends
    /\ LET id == Len(sends) + 1 IN
       IF args = << >>
       THEN /\ sends' = Append(sends, SendRecord(c, args, "threw", "none"))
            /\ rejections' = rejections + 1
            /\ running' \in BOOLEAN
            /\ UNCHANGED <<rooms, inbox, appends>>
       ELSE IF DbAvailable
       THEN /\ sends' = Append(sends, SendRecord(c, args, "persisting", "pending"))
            /\ appends' = Append(appends, InsertRow(id, args[1]))
            /\ Relay(id, c, args[1])
            /\ UNCHANGED <<rejections, running>>
       ELSE /\ sends' = Append(sends, SendRecord(c, args, "done", "absent"))
            /\ Relay(id, c, args[1])
            /\ UNCHANGED <<appends, rejections, running>>
    /\ last' = NoEvent
    /\ UNCHANGED <<dbPhase, conn>>

\* The handler from its start to its first await, or to its end when it
\* does not await.
SendMessage(c, args) ==
    /\ running /\ conn[c] = "live"
    /\ Len(sends) < MaxSends
    /\ LET id == Len(sends) + 1 IN
       IF args = << >>
       THEN \* line 64 reads message.senderId of undefined: the async
            \* handler's promise is rejected and nobody handles it
            /\ sends' = Append(sends, SendRecord(c, args, "threw", "none"))
            /\ rejections' = rejections + 1
            \* the runtime build decides whether that ends the process
            /\ running' \in BOOLEAN
            /\ UNCHANGED <<rooms, inbox, appends>>
       ELSE IF DbAvailable
       THEN \* line 71: the INSERT is issued and the handler is suspended
            /\ sends' = Append(sends, SendRecord(c, args, "persisting", "pending"))
            /\ appends' = Append(appends, InsertRow(id, args[1]))
            /\ UNCHANGED <<rooms, inbox, rejections, running>>
       ELSE \* no dbConnection: the handler runs to its end at once
            /\ sends' = Append(sends, SendRecord(c, args, "done", "absent"))
            /\ Relay(id, c, args[1])
            /\ UNCHANGED <<appends, rejections, running>>
    /\ last' = NoEvent
    /\ UNCHANGED <<dbPhase, conn>>

\* A handler whose broadcast sits inside the try block: a rejected INSERT
\* skips it.
PersistReturnAborts(id, ok) ==
    /\ running
    /\ id \in DOMAIN sends
    /\ sends[id].pc = "persisting"
    /\ sends' = [sends EXCEPT ![id].pc = "done",
                              ![id].outcome = IF ok THEN "ok" ELSE "fail"]
    /\ IF ok THEN Relay(id, sends[id].conn, sends[id].args[1])
             ELSE UNCHANGED <<rooms, inbox>>
    /\ last' = NoEvent
    /\ UNCHANGED <<dbPhase, conn, appends, rejections, running>>

\* A handler that issues the INSERT again when it was rejected.
PersistReturnRetries(id, ok) ==
    /\ running
    /\ id \in DOMAIN sends
    /\ sends[id].pc = "persisting"
    /\ IF ok
       THEN /\ sends' = [sends EXCEPT ![id].pc = "done", ![id].outcome = "ok"]
            /\ Relay(id, sends[id].conn, sends[id].args[1])
            /\ UNCHANGED appends
       ELSE /\ appends' = Append(appends, InsertRow(id, sends[id].args[1]))
            /\ UNCHANGED <<sends, rooms, inbox>>
    /\ last' = NoEvent
    /\ UNCHANGED <<dbPhase, conn, rejections, running>>

\* The INSERT of send number id resolves (ok) or rejects; the handler
\* resumes after the try/catch and runs to its end.
PersistReturn(id, ok) ==
    /\ running
    /\ id \in DOMAIN sends
    /\ sends[id].pc = "persisting"
    /\ sends' = [sends EXCEPT ![id].pc = "done",
                              ![id].outcome = IF ok THEN "ok" ELSE "fail"]
    /\ Relay(id, sends[id].conn, sends[id].args[1])
    /\ last' = NoEvent
    /\ UNCHANGED <<dbPhase, conn, appends, rejections, running>>

Next ==
    \/ DbConnected
    \/ DbConnectFailed
    \/ \E ok \in BOOLEAN : DbProbeReturn(ok)
    \/ \E c \in Conns : Connect(c)
    \/ \E c \in Conns, r \in Rooms : JoinChatRoom(c, r)
    \/ \E c \in Conns : Disconnect(c)
    \/ \E c \in Conns, args \in Payloads : SendMessage(c, args)
    \/ \E id \in 1..MaxSends, ok \in BOOLEAN : PersistReturn(id, ok)

Spec == Init /\ [][Next]_vars

\* Every INSERT that was issued eventually resolves or rejects.
FairSpec ==
    Spec /\ \A id \in 1..MaxSends :
                WF_vars(\E ok \in BOOLEAN : PersistReturn(id, ok))

TypeOK ==
    /\ dbPhase \in {"connecting", "probing", "probed", "probeFailed",
                    "absent"}
    /\ conn \in [Conns -> {"new", "live", "closed"}]
    /\ rooms \in [Rooms -> SUBSET Conns]
    /\ Len(sends) <= MaxSends
    /\ rejections \in 0..MaxSends
    /\ running \in BOOLEAN

\* ---- vocabulary of the properties ----------------------------------------
HasMessage(i) == sends[i].args # << >>
Msg(i) == sends[i].args[1]
Room(i) == Msg(i).chatId
Sender(i) == sends[i].conn
Handled(i) == i \in DOMAIN sends /\ sends[i].pc = "done"

\* Connection c was sent the new_message event of send number i.
Received(c, i) == \E k \in DOMAIN inbox[c] : inbox[c][k].id = i
AttemptsOf(i) ==
    Cardinality({k \in DOMAIN appends : appends[k].id = i})

\* This step is the one on which send number i is broadcast.
BroadcastStep(i) ==
    /\ i \in DOMAIN sends'
    /\ sends'[i].pc = "done"
    /\ i \notin DOMAIN sends \/ sends[i].pc # "done"

\* This step is the one on which send number i is received by the server.
ReceiveStep(i) == i \notin DOMAIN sends /\ i \in DOMAIN sends'

\* Connection c is sent exactly one more event on this step: message m of
\* send number i.
GetsOne(c, i, m) == inbox'[c] = Append(inbox[c], [id |-> i, payload |-> m])

\* ---- C1 ------------------------------------------------------------------
\* C1: a live connection that is not a member of the room when its message
\* is about to be broadcast is joined first, so it is sent the new_message
\* event of its own message.
C1_SenderReceivesOwnMessage ==
    [][\A i \in 1..MaxSends :
          (/\ BroadcastStep(i)
           /\ conn[sends'[i].conn] = "live"
           /\ sends'[i].conn \notin rooms[sends'[i].args[1].chatId])
          => GetsOne(sends'[i].conn, i, sends'[i].args[1])]_vars

\* ---- C2 ------------------------------------------------------------------
\* C2: every connection in a room's member set is live; a connection that
\* has disconnected is a member of no room at any later point.
C2_MembersAreLive ==
    \A r \in Rooms : \A c \in rooms[r] : conn[c] = "live"

\* ---- C3 ------------------------------------------------------------------
\* C3: on the broadcast of a message to room R every connection that is a
\* member of R at that moment is sent exactly one new_message event, whose
\* payload is the message object that was sent.
C3_FanOutToEveryMember ==
    [][\A i \in 1..MaxSends :
          BroadcastStep(i) =>
              \A c \in rooms[sends'[i].args[1].chatId] :
                  GetsOne(c, i, sends'[i].args[1])]_vars

\* ---- C4 ------------------------------------------------------------------
\* C4: a message is broadcast whether its append succeeded, failed or was
\* not attempted because the port is absent: it is broadcast on the step it
\* is received (port absent) or on the step its append returns, and in every
\* case the recipients are the live members of its room at that moment and
\* each is sent the message object itself.
C4_PersistenceIndependence ==
    [][\A i \in 1..MaxSends :
          /\ (ReceiveStep(i) /\ sends'[i].args # << >> /\ ~DbAvailable)
                => BroadcastStep(i)
          /\ (i \in DOMAIN sends /\ sends[i].outcome = "pending"
                /\ sends'[i].outcome \in {"ok", "fail"})
                => BroadcastStep(i)
          /\ BroadcastStep(i) =>
                \A c \in Conns :
                    IF c \in rooms[sends'[i].args[1].chatId] /\ conn[c] = "live"
                    THEN GetsOne(c, i, sends'[i].args[1])
                    ELSE inbox'[c] = inbox[c]]_vars

\* A message broadcast without an append attempt and one broadcast after a
\* failed append have both reached the same connection.
C4_Witness ==
    \E i, j \in DOMAIN sends : \E c \in Conns :
        /\ Handled(i) /\ sends[i].outcome = "absent" /\ Received(c, i)
        /\ Handled(j) /\ sends[j].outcome = "fail" /\ Received(c, j)

C6_PerRoomOrder ==
    \A c \in Conns : \A k1, k2 \in DOMAIN inbox[c] :
        (k1 < k2 /\ inbox[c][k1].payload.chatId = inbox[c][k2].payload.chatId)
        => inbox[c][k1].id < inbox[c][k2].id

\* ---- C7 ------------------------------------------------------------------
\* C7: no handler ends with an uncaught error and the server keeps running.
C7_NoUncaughtError ==
    rejections = 0 /\ running

\* ---- C8 ------------------------------------------------------------------
\* C8: every send_message event the server has received is eventually
\* broadcast, provided every append that was issued returns.
C8_EventualDelivery ==
    \A i \in 1..MaxSends : (i \in DOMAIN sends) ~> Handled(i)

\* ---- C9 ------------------------------------------------------------------
\* C9: a join_chat_room by a connection that is already a member of the room
\* leaves every room's member set unchanged and raises no error.
C9_JoinIdempotent ==
    [][(last' = "rejoin")
          => (rooms' = rooms /\ rejections' = rejections /\ running')]_vars

\* The latest step was a join_chat_room of a room the connection was in.
C9_Witness ==
    /\ last = "rejoin"
    /\ \E r \in Rooms : Cardinality(rooms[r]) = 2

\* ---- C10 -----------------------------------------------------------------
\* C10: a send_message carrying a message causes one append attempt on the
\* step it is received if the port is available then and none if it is
\* absent; no other step adds an attempt, so a failed append is not retried
\* and no send ever has more than one.
C10_AtMostOneAppend ==
    /\ [](\A i \in DOMAIN sends : AttemptsOf(i) <= 1)
    /\ [][ /\ \A i \in 1..MaxSends :
                (ReceiveStep(i) /\ sends'[i].args # << >>)
                => (Len(appends') - Len(appends)
                       = IF DbAvailable THEN 1 ELSE 0)
           /\ (Len(sends') = Len(sends)) => appends' = appends
           /\ \A k \in DOMAIN appends :
                  k \in DOMAIN appends' /\ appends'[k] = appends[k]
           /\ \A k \in DOMAIN appends' \ DOMAIN appends :
                  appends'[k].id = Len(sends') ]_vars

\* One message was handled without an attempt (port absent) and another was
\* handled after its single attempt failed.
C10_Witness ==
    \E i, j \in DOMAIN sends :
        /\ Handled(i) /\ sends[i].outcome = "absent" /\ AttemptsOf(i) = 0
        /\ Handled(j) /\ sends[j].outcome = "fail" /\ AttemptsOf(j) = 1
\* ---- C11 -----------------------------------------------------------------
\* The handler of send number i is suspended in its INSERT.
Pending(i) == running /\ i \in DOMAIN sends /\ sends[i].pc = "persisting"

\* C11: while the INSERT of one connection's message is pending, every
\* other connection's next event is handled at once: a connection that has
\* not connected can connect, a connected one can join any room, disconnect
\* and (below the bound on send_message events) send any payload.
C11_PendingBlocksNobody ==
    \A i \in DOMAIN sends : \A c \in Conns \ {sends[i].conn} :
        Pending(i) =>
            /\ conn[c] = "new" => ENABLED Connect(c)
            /\ conn[c] = "live" =>
                  /\ \A r \in Rooms : ENABLED JoinChatRoom(c, r)
                  /\ ENABLED Disconnect(c)
                  /\ Len(sends) < MaxSends =>
                        \A args \in Payloads : ENABLED SendMessage(c, args)

\* While the INSERT of one message is pending, a later message of another
\* connection to another room has been broadcast and received.
C11_Witness ==
    \E i, j \in DOMAIN sends :
        /\ Pending(i) /\ i < j /\ Handled(j)
        /\ Sender(i) # Sender(j) /\ Room(i) # Room(j)
        /\ \E c \in Conns : Received(c, j)
\* ---- C12 -----------------------------------------------------------------
\* The connections that are sent an event on this step.
Recipients == {c \in Conns : inbox'[c] # inbox[c]}

\* C12: a join and a broadcast never interleave inside one another: a join
\* step delivers nothing, and the recipients of a broadcast are exactly the
\* room's member set as it stands between two joins, each member being sent
\* the message once.
C12_NoTornRead ==
    [][/\ (sends' = sends) => Recipients = {}
       /\ \A i \in 1..MaxSends :
             BroadcastStep(i) =>
                 /\ Recipients = rooms[sends'[i].args[1].chatId]
                 /\ \A c \in Recipients : GetsOne(c, i, sends'[i].args[1])]_vars
\* ---- C13 -----------------------------------------------------------------
\* The room table with the pair (c, r) added.
WithMember(rms, c, r) == [rms EXCEPT ![r] = @ \cup {c}]

\* C13: a step that changes the room table is a disconnect, which removes
\* the closing connection from every room and nothing else, or a
\* join_chat_room or the end of a send_message handler, which adds the one
\* pair (connection, room) of that event and nothing else; and the end of a
\* send_message handler changes nothing but that pair.
C13_MembershipFrame ==
    [][/\ rooms' # rooms =>
            \/ \E c \in Conns :
                  /\ conn[c] = "live" /\ conn'[c] = "closed"
                  /\ rooms' = [r \in Rooms |-> rooms[r] \ {c}]
            \/ \E c \in Conns, r \in Rooms :
                  /\ rooms' = WithMember(rooms, c, r)
                  /\ \/ conn[c] = "live" /\ sends' = sends /\ conn' = conn
                     \/ \E i \in 1..MaxSends :
                           /\ BroadcastStep(i)
                           /\ sends'[i].conn = c
                           /\ sends'[i].args[1].chatId = r
       /\ \A i \in 1..MaxSends :
             BroadcastStep(i) =>
                 rooms' \in {rooms, WithMember(rooms, sends'[i].conn,
                                               sends'[i].args[1].chatId)}]_vars

\* A connected connection is in one room through its own message (which it
\* was not sent, so it had not joined before) and in the other room too,
\* while another connection that had received a message has disconnected.
C13_Witness ==
    \E i \in DOMAIN sends : \E r \in Rooms, d \in Conns :
        /\ Handled(i) /\ conn[Sender(i)] = "live"
        /\ ~Received(Sender(i), i)
        /\ Sender(i) \in rooms[Room(i)]
        /\ r # Room(i) /\ Sender(i) \in rooms[r]
        /\ conn[d] = "closed" /\ inbox[d] # << >>
\* ---- C14 -----------------------------------------------------------------
\* C14: a message for which an INSERT was issued is broadcast only once that
\* INSERT has resolved or been rejected: while the statement is outstanding
\* the handler has not ended and nobody has been sent the message, and the
\* step on which the statement is issued broadcasts nothing.
C14_PersistBeforeBroadcast ==
    /\ [](\A i \in DOMAIN sends :
             (AttemptsOf(i) > 0 /\ sends[i].outcome \notin {"ok", "fail"})
             => (~Handled(i) /\ \A c \in Conns : ~Received(c, i)))
    /\ [][\A i \in 1..MaxSends :
             (ReceiveStep(i) /\ Len(appends') > Len(appends))
             => (~BroadcastStep(i) /\ inbox' = inbox /\ rooms' = rooms)]_vars

\* A message whose INSERT has returned was delivered to two connections.
C14_Witness ==
    \E i \in DOMAIN sends :
        /\ Handled(i) /\ AttemptsOf(i) = 1 /\ sends[i].outcome = "ok"
        /\ \A c \in Conns : Received(c, i)
\* ---- C15 -----------------------------------------------------------------
\* This step raises no error.
NoError == rejections' = rejections /\ running'

\* C15 as stated: a join_chat_room or a send_message that names a room
\* without members raises no error, and when its handling ends the room
\* contains the joining or sending connection.
C15_UnknownRoom ==
    [][/\ \A c \in Conns, r \in Rooms :
             (JoinChatRoom(c, r) /\ rooms[r] = {})
             => (c \in rooms'[r] /\ NoError)
       /\ \A i \in 1..MaxSends :
             (BroadcastStep(i) /\ rooms[sends'[i].args[1].chatId] = {})
             => (sends'[i].conn \in rooms'[sends'[i].args[1].chatId]
                 /\ NoError)]_vars

\* C15 as amended: the same, for a sending connection that is still
\* connected when the handling of its message ends.
C15_UnknownRoomConnected ==
    [][/\ \A c \in Conns, r \in Rooms :
             (JoinChatRoom(c, r) /\ rooms[r] = {})
             => (rooms'[r] = {c} /\ NoError)
       /\ \A i \in 1..MaxSends :
             (/\ BroadcastStep(i)
              /\ rooms[sends'[i].args[1].chatId] = {}
              /\ conn[sends'[i].conn] = "live")
             => (/\ rooms'[sends'[i].args[1].chatId] = {sends'[i].conn}
                 /\ Recipients = {}
                 /\ NoError)]_vars

\* A connected sender is the only member of the room of its message, which
\* reached nobody, and another connection that has sent nothing is the only
\* member of the other room.
C15_Witness ==
    \E i \in DOMAIN sends : \E r \in Rooms, d \in Conns :
        /\ Handled(i) /\ conn[Sender(i)] = "live"
        /\ \A c \in Conns : ~Received(c, i)
        /\ rooms[Room(i)] = {Sender(i)}
        /\ r # Room(i) /\ rooms[r] = {d} /\ d # Sender(i)
        /\ \A j \in DOMAIN sends : Sender(j) # d
\* ---- C16 -----------------------------------------------------------------
\* C16: a message received while createConnection has failed or has not
\* resolved yet causes no INSERT and is broadcast on that same step to the
\* live members of its room; and dbConnection, once assigned, stays
\* assigned on every step, among them a failed probe and a failed INSERT, and
\* goes on being used for the messages received afterwards.
C16_OptionalPort ==
    [][/\ DbAvailable => DbAvailable'
       /\ \A i \in 1..MaxSends :
             (ReceiveStep(i) /\ sends'[i].args # << >>) =>
                 IF DbAvailable
                 THEN Len(appends') = Len(appends) + 1
                 ELSE /\ appends' = appends
                      /\ BroadcastStep(i)
                      /\ Recipients =
                            {c \in rooms[sends'[i].args[1].chatId] :
                                conn[c] = "live"}]_vars

\* The probe has failed; a message received before the connection existed
\* was delivered without an INSERT, and the INSERT of a later message was
\* issued and rejected.
C16_Witness ==
    /\ dbPhase = "probeFailed"
    /\ \E i, j \in DOMAIN sends :
          /\ sends[i].outcome = "absent" /\ AttemptsOf(i) = 0
          /\ \E c \in Conns : Received(c, i)
          /\ i < j /\ sends[j].outcome = "fail" /\ AttemptsOf(j) = 1
\* ---- C17 -----------------------------------------------------------------
\* C17: every row handed to INSERT carries the chatId, senderId and text of
\* the one message whose handling issued it, its timestamp is the database's
\* NOW() at the time the statement runs, and no field of it comes from
\* another message.
C17_RecordContent ==
    \A k \in DOMAIN appends :
        /\ appends[k].id \in DOMAIN sends
        /\ HasMessage(appends[k].id)
        /\ appends[k].chatId = Msg(appends[k].id).chatId
        /\ appends[k].senderId = Msg(appends[k].id).senderId
        /\ appends[k].text = Msg(appends[k].id).text
        /\ appends[k].timestamp = "NOW()"

\* Two different messages were received one after the other while the first
\* INSERT was still pending, and each has its own row.
C17_Witness ==
    /\ Len(appends) = 2
    /\ appends[1].id # appends[2].id
    /\ Msg(appends[1].id) # Msg(appends[2].id)
    /\ sends[appends[1].id].pc = "persisting"
    /\ sends[appends[2].id].pc = "persisting"
\* ---- C18 -----------------------------------------------------------------
\* C18: a new_message event for room R is sent only to a connection that is
\* connected and is a member of R at that moment, and a connection becomes a
\* member of R only by its own join_chat_room(R) or by the join that ends the
\* handling of a message it sent to R; so a connection that never joined or
\* sent to R, or that has disconnected, is sent no message for R.
C18_DeliveryOnlyToMembers ==
    [][/\ \A c \in Conns : \A k \in DOMAIN inbox'[c] :
             k > Len(inbox[c]) =>
                 /\ conn[c] = "live" /\ conn'[c] = "live"
                 /\ c \in rooms[inbox'[c][k].payload.chatId]
       /\ \A c \in Conns, r \in Rooms :
             (c \in rooms'[r] /\ c \notin rooms[r]) =>
                 \/ JoinChatRoom(c, r)
                 \/ \E i \in 1..MaxSends :
                       /\ BroadcastStep(i)
                       /\ sends'[i].conn = c
                       /\ sends'[i].args[1].chatId = r]_vars

\* A connection that joined the room only by sending to it was sent its
\* second message to that room, while another connection, connected all the
\* time but a member of a different room only, was sent nothing.
C18_Witness ==
    \E i, j \in DOMAIN sends : \E d \in Conns :
        /\ i < j /\ Handled(i) /\ Handled(j)
        /\ HasMessage(i) /\ HasMessage(j)
        /\ Sender(i) = Sender(j) /\ Room(i) = Room(j)
        /\ ~Received(Sender(i), i) /\ Received(Sender(j), j)
        /\ d # Sender(i) /\ conn[d] = "live"
        /\ d \notin rooms[Room(i)] /\ inbox[d] = << >>
        /\ \E r \in Rooms : d \in rooms[r]
====
